---------------------------- MODULE Spec2Model ----------------------------
(***************************************************************************)
(* A model of the retrieval-augmented query pipeline of vakeel.ai:         *)
(* RAGPipeline (models/rag_pipeline.py), LLMHandler (models/llm_handler.py)*)
(* and EmbeddingManager (models/embeddings.py), with the ChromaDB          *)
(* collection they share.                                                  *)
(*                                                                         *)
(* Encodings.                                                              *)
(*  - A raw text is a sequence of tokens; the token " " is whitespace and  *)
(*    every other token is a word.  str.split() keeps the words,           *)
(*    " ".join(words) puts one " " between each two of them.               *)
(*  - A filename is a sequence of characters; <<>> is None or "".          *)
(*  - The string f"doc_{ms}_{name}" is the tuple <<"doc", ms, name>> and   *)
(*    f"{doc_id}_chunk_{i}" is <<doc_id, i>>: both formats can be parsed   *)
(*    back unambiguously, so equal tuples are equal strings.               *)
(*  - Real numbers (distances, scores, confidence) are integers counting   *)
(*    thousandths.                                                         *)
(*  - An answer is a sequence of tokens; each fixed message of the code is *)
(*    the one-token sequence holding its literal.                          *)
(*  - A call that can raise returns [exc |-> <kind or "none">, val |-> _]. *)
(***************************************************************************)
EXTENDS Integers, Sequences, FiniteSets, TLC

(***************************************************************************)
(* Bounds of the model.                                                    *)
(***************************************************************************)
\* The millisecond clock runs from 0 to MaxClock.
MaxClock == 1
\* index_document is called while it leaves at most MaxUserRecords records
\* of user-uploaded documents in the store.
MaxUserRecords == 1
\* _chunk_text is given texts of up to MaxWords words.
MaxWords == 2401
\* _rerank_results is given up to MaxCandidates documents.
MaxCandidates == 3
\* embed_texts is given up to MaxTexts texts, in batches of up to MaxBatch.
MaxTexts == 3
MaxBatch == 2
\* Long uploads leave at most MaxLongRecords user records in the store,
\* and their file names carry one of MaxUploads uuid4 values.
MaxLongRecords == 3
MaxUploads == 2
\* The legal library of a start holds up to MaxLibrary documents.
MaxLibrary == 7

(***************************************************************************)
(* Program constants.                                                      *)
(***************************************************************************)
top_k_retrieval == 10
top_k_rerank == 5
chunk_size == 1000
chunk_overlap == 200
\* min(max_tokens, 2000) in generate_response
NumPredictCeiling == 2000
\* max_length in _post_process_response
max_length == 2000

NoException == "none"

Min(a, b) == IF a <= b THEN a ELSE b

Range(s) == {s[i] : i \in DOMAIN s}

\* dict.get(key, default)
Get(d, key, default) == IF key \in DOMAIN d THEN d[key] ELSE default

\* dict.update(other): the keys of other win
Update(d, other) ==
    [k \in (DOMAIN d) \cup (DOMAIN other) |->
        IF k \in DOMAIN other THEN other[k] ELSE d[k]]


(***************************************************************************)
(* Texts.                                                                  *)
(***************************************************************************)
NL == "\n"

IsSpace(t) == t \in {" ", NL}

IsWord(t) == ~IsSpace(t)

\* str.split(): the words of a text, whitespace dropped
Split(text) == SelectSeq(text, IsWord)

RECURSIVE LStrip(_)
LStrip(text) ==
    IF text # <<>> /\ IsSpace(Head(text)) THEN LStrip(Tail(text)) ELSE text

RECURSIVE RStrip(_)
RStrip(text) ==
    IF text # <<>> /\ IsSpace(text[Len(text)])
    THEN RStrip(SubSeq(text, 1, Len(text) - 1))
    ELSE text

\* str.strip()
Strip(text) == RStrip(LStrip(text))

\* " ".join(words)
JoinSpace(words) ==
    [j \in 1..(IF words = <<>> THEN 0 ELSE 2 * Len(words) - 1) |->
        IF j % 2 = 1 THEN words[(j + 1) \div 2] ELSE " "]

(***************************************************************************)
(* RAGPipeline._chunk_text: one chunk per start i of                       *)
(* range(0, len(words), chunk_size - chunk_overlap).                       *)
(***************************************************************************)
\* A step of a whole window: the chunks do not overlap.
ChunkStrideNoOverlap == chunk_size

\* the step of the range: chunk_size - chunk_overlap
ChunkStride == chunk_size - chunk_overlap

\* Starts of full windows only: range(0, len(words) - chunk_size + 1, step).
ChunkStartsFullWindows(n, stride) ==
    {i \in 0..(n - chunk_size) : i % stride = 0}

ChunkStarts(n, stride) == {i \in 0..(n - 1) : i % stride = 0}

ChunkText(text, metadata) ==
    LET words == Split(text)
        n == Len(words)
        stride == ChunkStride
        count == Cardinality(ChunkStarts(n, stride))
        chunk(k) ==
            LET i == k * stride
                chunk_words == SubSeq(words, i + 1, Min(i + chunk_size, n))
                chunk_metadata ==
                    [chunk_id |-> k,
                     start_word |-> i,
                     end_word |-> Min(i + chunk_size, n),
                     word_count |-> Len(chunk_words)]
            IN [text |-> JoinSpace(chunk_words),
                metadata |-> IF DOMAIN metadata # {}
                             THEN Update(chunk_metadata, metadata)
                             ELSE chunk_metadata]
    IN [k \in 1..count |-> chunk(k - 1)]

(***************************************************************************)
(* EmbeddingManager.  The sentence-transformer is a fixed function from a  *)
(* text to a unit vector; the model keeps the vector's direction, one of   *)
(* twelve angles 30 degrees apart.                                         *)
(***************************************************************************)
WordAngle(w) ==
    CASE w = "a" -> 1
      [] w = "b" -> 2
      [] w = "c" -> 4
      [] OTHER -> 0

\* The sum of the angles of the tokens of a text, by halves.
RECURSIVE SumAngles(_)
SumAngles(text) ==
    IF text = <<>> THEN 0
    ELSE IF Len(text) = 1 THEN WordAngle(text[1])
    ELSE LET half == Len(text) \div 2
         IN  SumAngles(SubSeq(text, 1, half))
                 + SumAngles(SubSeq(text, half + 1, Len(text)))

\* self.model.encode of one text
Encode(text) == SumAngles(text) % 12

\* batch_size of embed_texts
DefaultBatchSize == 32

\* A loop that puts each batch before the ones already encoded.
RECURSIVE EncodeBatchesPrepended(_, _)
EncodeBatchesPrepended(cleaned_texts, batch_size) ==
    IF cleaned_texts = <<>> THEN <<>>
    ELSE LET m == Min(batch_size, Len(cleaned_texts))
             batch_texts == SubSeq(cleaned_texts, 1, m)
             batch_embeddings == [j \in 1..m |-> Encode(batch_texts[j])]
         IN EncodeBatchesPrepended(
                SubSeq(cleaned_texts, m + 1, Len(cleaned_texts)),
                batch_size) \o batch_embeddings

RECURSIVE EncodeBatches(_, _)
EncodeBatches(cleaned_texts, batch_size) ==
    IF cleaned_texts = <<>> THEN <<>>
    ELSE LET m == Min(batch_size, Len(cleaned_texts))
             batch_texts == SubSeq(cleaned_texts, 1, m)
             batch_embeddings == [j \in 1..m |-> Encode(batch_texts[j])]
         IN batch_embeddings \o
            EncodeBatches(SubSeq(cleaned_texts, m + 1, Len(cleaned_texts)),
                          batch_size)

IsNonBlank(text) == Strip(text) # <<>>

CleanTexts(texts) ==
    LET kept == SelectSeq(texts, IsNonBlank)
    IN [j \in 1..Len(kept) |-> Strip(kept[j])]

\* embed_texts: encoder is "ok" or "fail" (self.model.encode raises, or
\* there is no model); the failure is logged and raised again.
EmbedTexts(texts, batch_size, encoder) ==
    IF texts = <<>> THEN [exc |-> NoException, val |-> <<>>]
    ELSE IF CleanTexts(texts) = <<>> THEN [exc |-> NoException, val |-> <<>>]
    ELSE IF encoder # "ok" THEN [exc |-> "EmbeddingError", val |-> <<>>]
    ELSE [exc |-> NoException,
          val |-> EncodeBatches(CleanTexts(texts), batch_size)]

\* Thousand times the cosine of k * 30 degrees.
CosMilli(k) ==
    CASE k % 12 = 0 -> 1000
      [] k % 12 \in {1, 11} -> 866
      [] k % 12 \in {2, 10} -> 500
      [] k % 12 \in {3, 9} -> 0
      [] k % 12 \in {4, 8} -> -500
      [] k % 12 \in {5, 7} -> -866
      [] OTHER -> -1000

\* The collection's metric, "hnsw:space": "cosine": 1 - cos, from 0 to 2.
CosineDistance(e1, e2) == 1000 - CosMilli(e1 - e2)

(***************************************************************************)
(* The ChromaDB collection "legal_documents".  Its contents are a sequence *)
(* of records [id, embedding, document, metadata] in insertion order.  A   *)
(* where clause is a function from metadata keys to required values; the   *)
(* empty function is where=None.  Every call takes the condition of the    *)
(* store, "ok" or "fail" (the call raises).                                *)
(***************************************************************************)
NoWhere == [k \in {} |-> 0]

Matches(metadata, where) ==
    \A k \in DOMAIN where : k \in DOMAIN metadata /\ metadata[k] = where[k]

StoredIds(db) == {db[j].id : j \in DOMAIN db}

RecordMatches(where, r) == Matches(r.metadata, where)

Matching(db, where) ==
    LET Keep(r) == RecordMatches(where, r) IN SelectSeq(db, Keep)

\* An add that takes an empty list of ids and adds nothing.
CollectionAddEmptyOk(db, ids, embeddings, documents, metadatas, store) ==
    IF store # "ok" THEN [exc |-> "StoreError", db |-> db]
    ELSE IF Len(embeddings) # Len(ids) \/ Len(documents) # Len(ids)
            \/ Len(metadatas) # Len(ids)
         THEN [exc |-> "ValueError", db |-> db]
    ELSE IF Cardinality(Range(ids)) # Len(ids)
         THEN [exc |-> "DuplicateIDError", db |-> db]
    ELSE LET records == [j \in 1..Len(ids) |->
                            [id |-> ids[j],
                             embedding |-> embeddings[j],
                             document |-> documents[j],
                             metadata |-> metadatas[j]]]
             IsNew(r) == r.id \notin StoredIds(db)
         IN [exc |-> NoException, db |-> db \o SelectSeq(records, IsNew)]

\* collection.add(ids, embeddings, documents, metadatas): an empty list of
\* ids, lists of different lengths and an id repeated within the call are
\* rejected; a record whose id is already stored is left as it is (the
\* insert of an existing id is skipped with a warning, nothing is raised).
CollectionAdd(db, ids, embeddings, documents, metadatas, store) ==
    IF store # "ok" THEN [exc |-> "StoreError", db |-> db]
    ELSE IF Len(ids) = 0 THEN [exc |-> "ValueError", db |-> db]
    ELSE IF Len(embeddings) # Len(ids) \/ Len(documents) # Len(ids)
            \/ Len(metadatas) # Len(ids)
         THEN [exc |-> "ValueError", db |-> db]
    ELSE IF Cardinality(Range(ids)) # Len(ids)
         THEN [exc |-> "DuplicateIDError", db |-> db]
    ELSE LET records == [j \in 1..Len(ids) |->
                            [id |-> ids[j],
                             embedding |-> embeddings[j],
                             document |-> documents[j],
                             metadata |-> metadatas[j]]]
             IsNew(r) == r.id \notin StoredIds(db)
         IN [exc |-> NoException, db |-> db \o SelectSeq(records, IsNew)]

\* Stable insertion of r into a sequence sorted by distance to e.
RECURSIVE InsertByDistance(_, _, _)
InsertByDistance(sorted, r, e) ==
    IF sorted = <<>> THEN <<r>>
    ELSE IF CosineDistance(e, r.embedding)
                < CosineDistance(e, Head(sorted).embedding)
         THEN <<r>> \o sorted
         ELSE <<Head(sorted)>> \o InsertByDistance(Tail(sorted), r, e)

RECURSIVE SortByDistance(_, _)
SortByDistance(records, e) ==
    IF records = <<>> THEN <<>>
    ELSE InsertByDistance(
             SortByDistance(SubSeq(records, 1, Len(records) - 1), e),
             records[Len(records)], e)

\* The result of collection.query for the hits found.
QueryResults(hits, e) ==
    [exc |-> NoException,
     ids |-> [j \in 1..Len(hits) |-> hits[j].id],
     documents |-> [j \in 1..Len(hits) |-> hits[j].document],
     metadatas |-> [j \in 1..Len(hits) |-> hits[j].metadata],
     distances |-> [j \in 1..Len(hits) |->
                       CosineDistance(e, hits[j].embedding)]]

FirstN(s, n) == SubSeq(s, 1, Min(n, Len(s)))

\* collection.query(query_embeddings=[e], n_results, where, include):
\* the n_results nearest records among those the where clause admits.
CollectionQuery(db, e, n_results, where, store) ==
    IF store # "ok"
    THEN [exc |-> "StoreError", ids |-> <<>>, documents |-> <<>>,
          metadatas |-> <<>>, distances |-> <<>>]
    ELSE QueryResults(
             FirstN(SortByDistance(Matching(db, where), e), n_results), e)

FoundIds(found) ==
    [exc |-> NoException, ids |-> [j \in 1..Len(found) |-> found[j].id]]

\* collection.get(where, include)
CollectionGet(db, where, store) ==
    IF store # "ok" THEN [exc |-> "StoreError", ids |-> <<>>]
    ELSE FoundIds(Matching(db, where))

\* A delete that ignores its where clause and empties the collection.
CollectionDeleteAll(db, where, store) ==
    IF store # "ok" THEN [exc |-> "StoreError", db |-> db]
    ELSE [exc |-> NoException, db |-> <<>>]

\* collection.delete(where)
CollectionDelete(db, where, store) ==
    IF store # "ok" THEN [exc |-> "StoreError", db |-> db]
    ELSE LET Keep(r) == ~RecordMatches(where, r)
         IN [exc |-> NoException, db |-> SelectSeq(db, Keep)]

\* collection.count()
CollectionCount(db) == Len(db)

(***************************************************************************)
(* RAGPipeline._rerank_results.  The cross-encoder is a fixed function     *)
(* from a (query, document) pair to a logit.                               *)
(***************************************************************************)
RerankLogit(query, document) ==
    ((SumAngles(query) + 2 * SumAngles(document)) % 5) - 2

\* torch.sigmoid, in thousandths
Sigmoid(logit) ==
    CASE logit <= -2 -> 119
      [] logit = -1 -> 269
      [] logit = 0 -> 500
      [] logit = 1 -> 731
      [] OTHER -> 881

\* list(range(n))
Identity(n) == [j \in 1..n |-> j - 1]

Reverse(s) == [j \in 1..Len(s) |-> s[Len(s) + 1 - j]]

\* Stable insertion of index i into indices sorted by ascending score.
RECURSIVE InsertByScore(_, _, _)
InsertByScore(sorted, i, scores) ==
    IF sorted = <<>> THEN <<i>>
    ELSE IF scores[i + 1] < scores[Head(sorted) + 1]
         THEN <<i>> \o sorted
         ELSE <<Head(sorted)>> \o InsertByScore(Tail(sorted), i, scores)

\* np.argsort(scores): the indices 0..n-1 by ascending score
RECURSIVE ArgSortUpTo(_, _)
ArgSortUpTo(scores, n) ==
    IF n = 0 THEN <<>>
    ELSE InsertByScore(ArgSortUpTo(scores, n - 1), n - 1, scores)

ArgSort(scores) == ArgSortUpTo(scores, Len(scores))

\* scores of the (query, document) pairs
RerankScores(query, documents) ==
    [j \in 1..Len(documents) |-> Sigmoid(RerankLogit(query, documents[j]))]

\* A reranker without the except branch: a scoring failure escapes.
RerankResultsRaising(reranker_model, query, documents, scorer) ==
    IF ~reranker_model \/ documents = <<>>
    THEN [exc |-> NoException, val |-> Identity(Len(documents))]
    ELSE IF scorer # "ok"
    THEN [exc |-> "RerankError", val |-> <<>>]
    ELSE [exc |-> NoException,
          val |-> Reverse(ArgSort(RerankScores(query, documents)))]

\* reranker_model: whether the model was loaded; scorer: "ok" or "fail"
\* (tokenizing or scoring raises, which is logged and swallowed).
RerankResults(reranker_model, query, documents, scorer) ==
    IF ~reranker_model \/ documents = <<>>
    THEN [exc |-> NoException, val |-> Identity(Len(documents))]
    ELSE IF scorer # "ok"
    THEN [exc |-> NoException, val |-> Identity(Len(documents))]
    ELSE [exc |-> NoException,
          val |-> Reverse(ArgSort(RerankScores(query, documents)))]

(***************************************************************************)
(* The pipeline object p holds what initialize() has set so far:           *)
(*   collection, embedding_manager, reranker_model: whether it is set;     *)
(*   llm_handler: "none", "unloaded" (model_loaded is False) or "loaded".  *)
(* The environment of one call, env, gives the condition of each           *)
(* collaborator: encoder, store, scorer ("ok" or "fail") and gen, the      *)
(* outcome of the generation request.                                      *)
(***************************************************************************)
\* document_id=None and document_id=""
NoneId == <<"None", 0, <<>>>>
EmptyId == <<"", 0, <<>>>>

\* Python truth of a document_id argument
Truthy(document_id) == document_id \notin {NoneId, EmptyId}

\* What the body of retrieve_documents gives when it keeps no document:
\* the exception raised, or "none" when it returns [].
NoRetrieval(error) ==
    [exc |-> error, val |-> <<>>, candidates |-> <<>>, perm |-> <<>>]

\* for idx in reranked_indices[:self.top_k_rerank]: retrieved_docs.append
RetrievedDocs(results, kept) ==
    [r \in 1..Len(kept) |->
        [text |-> results.documents[kept[r] + 1],
         metadata |-> results.metadatas[kept[r] + 1],
         score |-> 1000 - results.distances[kept[r] + 1],
         rank |-> r]]

\* A retrieval that keeps every entry of the permutation.
RetrieveRerankedAll(results, reranked) ==
    IF reranked.exc # NoException THEN NoRetrieval(reranked.exc)
    ELSE [exc |-> NoException,
          val |-> RetrievedDocs(results, reranked.val),
          candidates |-> results.ids,
          perm |-> reranked.val]

\* retrieve_documents from the reranking on
RetrieveReranked(results, reranked) ==
    IF reranked.exc # NoException THEN NoRetrieval(reranked.exc)
    ELSE [exc |-> NoException,
          val |-> RetrievedDocs(results, FirstN(reranked.val, top_k_rerank)),
          candidates |-> results.ids,
          perm |-> reranked.val]

\* retrieve_documents from the result of collection.query on
RetrieveResults(p, query, env, results) ==
    IF results.exc # NoException THEN NoRetrieval(results.exc)
    ELSE IF results.documents = <<>> THEN NoRetrieval(NoException)
    ELSE RetrieveReranked(results,
             RerankResults(p.reranker_model, query, results.documents,
                           env.scorer))

\* A where clause that is never built: every query searches the whole
\* collection.
WhereClauseNone(document_id) == NoWhere

\* where_clause of retrieve_documents
WhereClause(document_id) ==
    IF Truthy(document_id) THEN [document_id |-> document_id] ELSE NoWhere

\* retrieve_documents from the embedding of the query on
RetrieveEmbedded(p, db, query, document_id, env, embedded) ==
    IF embedded.exc # NoException THEN NoRetrieval(embedded.exc)
    ELSE IF embedded.val = <<>> THEN NoRetrieval("IndexError")
    ELSE IF ~p.collection THEN NoRetrieval("AttributeError")
    ELSE RetrieveResults(p, query, env,
             CollectionQuery(db, embedded.val[1], top_k_retrieval,
                             WhereClause(document_id), env.store))

\* The body of the try block of retrieve_documents.
RetrieveBody(p, db, query, document_id, env) ==
    IF ~p.embedding_manager THEN NoRetrieval("AttributeError")
    ELSE RetrieveEmbedded(p, db, query, document_id, env,
             EmbedTexts(<<query>>, DefaultBatchSize, env.encoder))

\* except Exception: the exception is logged and [] returned.
CatchRetrieval(body) ==
    IF body.exc # NoException
    THEN [docs |-> <<>>, error |-> body.exc,
          candidates |-> <<>>, perm |-> <<>>]
    ELSE [docs |-> body.val, error |-> NoException,
          candidates |-> body.candidates, perm |-> body.perm]

\* retrieve_documents.  docs is the returned list; error, candidates and
\* perm record what happened inside (the logged exception, the store's
\* hits, the reranker's permutation).
RetrieveDocuments(p, db, query, document_id, env) ==
    CatchRetrieval(RetrieveBody(p, db, query, document_id, env))

(***************************************************************************)
(* LLMHandler.                                                             *)
(***************************************************************************)
NotLoadedMessage == <<"Model not loaded. Please check the system status.">>
ApiErrorMessage ==
    <<"I apologize, but I'm experiencing technical difficulties. Please try again.">>
EmptyResponseMessage ==
    <<"I couldn't generate a response. Please rephrase your question.">>
TimeoutMessage ==
    <<"The request is taking longer than expected. Please try with a simpler question.">>
GenerationErrorMessage ==
    <<"I encountered an error while processing your request. Please try again.">>
\* the answer of query's own except branch
QueryErrorMessage ==
    <<"I apologize, but I encountered an error while processing your question. Please try again.">>

\* len() of a text held as tokens
RECURSIVE TextLen(_)
TextLen(text) ==
    IF text = <<>> THEN 0
    ELSE (IF Head(text) = NL THEN 1 ELSE Len(Head(text))) + TextLen(Tail(text))

\* A prompt whose template is chosen by the question.
CreatePromptByQuestion(question, context) ==
    IF Strip(question) # <<>>
    THEN [template |-> "context", question |-> question, context |-> context]
    ELSE [template |-> "general", question |-> question, context |-> <<>>]

\* _create_prompt: the template is chosen by context.strip() alone
CreatePrompt(question, context) ==
    IF Strip(context) # <<>>
    THEN [template |-> "context", question |-> question, context |-> context]
    ELSE [template |-> "general", question |-> question, context |-> <<>>]

\* str.replace(token, "")
RemoveToken(text, token) ==
    LET Keep(t) == t # token IN SelectSeq(text, Keep)

\* str.split('\n')
RECURSIVE SplitLines(_, _)
SplitLines(text, line) ==
    IF text = <<>> THEN <<line>>
    ELSE IF Head(text) = NL THEN <<line>> \o SplitLines(Tail(text), <<>>)
    ELSE SplitLines(Tail(text), Append(line, Head(text)))

\* the loop of _post_process_response over the lines
RECURSIVE CleanLines(_, _)
CleanLines(lines, prev_line) ==
    IF lines = <<>> THEN <<>>
    ELSE LET line == Strip(Head(lines))
         IN IF line # <<>> /\ line # prev_line
            THEN <<line>> \o CleanLines(Tail(lines), line)
            ELSE CleanLines(Tail(lines), prev_line)

\* '\n\n'.join(lines)
RECURSIVE JoinLines(_)
JoinLines(lines) ==
    IF lines = <<>> THEN <<>>
    ELSE IF Len(lines) = 1 THEN Head(lines)
    ELSE Head(lines) \o <<NL, NL>> \o JoinLines(Tail(lines))

\* response[:n] of a text whose tokens are single characters
Prefix(text, n) == SubSeq(text, 1, Min(n, Len(text)))

\* _post_process_response.  After the two replace calls every token of the
\* text is a single character, so slicing by tokens is slicing by
\* characters.
PostProcessResponse(response) ==
    LET r1 == Strip(RemoveToken(response, "Answer:"))
        r2 == Strip(RemoveToken(r1, "Response:"))
        joined == JoinLines(CleanLines(SplitLines(r2, <<>>), <<>>))
        limited == IF TextLen(joined) > max_length
                   THEN Append(Prefix(joined, max_length), "...")
                   ELSE joined
    IN Strip(limited)

\* What generate_response returns after its request: the string, the one
\* request made, the template of the prompt and the num_predict sent.
Reply(text, prompt, max_tokens) ==
    [exc |-> NoException, text |-> text, requests |-> 1,
     template |-> prompt.template,
     num_predict |-> Min(max_tokens, NumPredictCeiling)]

\* The generated text returned as it is, empty or not.
OrEmptyResponseAsIs(generated_text) == generated_text

\* return generated_text if generated_text else "I couldn't ..."
OrEmptyResponse(generated_text) ==
    IF generated_text # <<>> THEN generated_text ELSE EmptyResponseMessage

\* generate_response without its "except Timeout" branch: the timeout
\* escapes to the caller.
GenerateWithPromptRaising(prompt, max_tokens, gen) ==
    CASE gen.kind = "timeout" ->
            [exc |-> "Timeout", text |-> <<>>, requests |-> 1,
             template |-> prompt.template,
             num_predict |-> Min(max_tokens, NumPredictCeiling)]
      [] gen.kind = "error" ->
            Reply(GenerationErrorMessage, prompt, max_tokens)
      [] gen.kind = "non200" -> Reply(ApiErrorMessage, prompt, max_tokens)
      [] OTHER ->
            Reply(OrEmptyResponse(PostProcessResponse(Strip(gen.text))),
                  prompt, max_tokens)

\* generate_response with "except Exception" alone: a timeout gets the
\* message of any other failure.
GenerateWithPromptGeneric(prompt, max_tokens, gen) ==
    CASE gen.kind \in {"timeout", "error"} ->
            Reply(GenerationErrorMessage, prompt, max_tokens)
      [] gen.kind = "non200" -> Reply(ApiErrorMessage, prompt, max_tokens)
      [] OTHER ->
            Reply(OrEmptyResponse(PostProcessResponse(Strip(gen.text))),
                  prompt, max_tokens)

\* generate_response sending its request a second time after a timeout
\* or a status that is not 200.
GenerateWithPromptRetrying(prompt, max_tokens, gen) ==
    CASE gen.kind = "timeout" ->
            [Reply(TimeoutMessage, prompt, max_tokens) EXCEPT !.requests = 2]
      [] gen.kind = "error" ->
            Reply(GenerationErrorMessage, prompt, max_tokens)
      [] gen.kind = "non200" ->
            [Reply(ApiErrorMessage, prompt, max_tokens) EXCEPT !.requests = 2]
      [] OTHER ->
            Reply(OrEmptyResponse(PostProcessResponse(Strip(gen.text))),
                  prompt, max_tokens)

\* generate_response.  gen is the outcome of requests.post:
\*   [kind |-> "ok", text |-> raw]  status 200 with "response": raw
\*   [kind |-> "non200"]            another status code
\*   [kind |-> "timeout"]           requests.exceptions.Timeout
\*   [kind |-> "error"]             any other exception
\* The result gives the returned string, the number of requests made and
\* the template of the prompt that was built ("none" when none was).
GenerateWithPrompt(prompt, max_tokens, gen) ==
    CASE gen.kind = "timeout" -> Reply(TimeoutMessage, prompt, max_tokens)
      [] gen.kind = "error" ->
            Reply(GenerationErrorMessage, prompt, max_tokens)
      [] gen.kind = "non200" -> Reply(ApiErrorMessage, prompt, max_tokens)
      [] OTHER ->
            Reply(OrEmptyResponse(PostProcessResponse(Strip(gen.text))),
                  prompt, max_tokens)

GenerateResponse(model_loaded, question, context, max_tokens, gen) ==
    IF ~model_loaded
    THEN [exc |-> NoException, text |-> NotLoadedMessage, requests |-> 0,
          template |-> "none", num_predict |-> 0]
    ELSE GenerateWithPrompt(CreatePrompt(question, context), max_tokens, gen)

(***************************************************************************)
(* RAGPipeline.query.                                                      *)
(***************************************************************************)
\* round(x, 2) of a number of thousandths: the nearest multiple of ten,
\* a tie going to the even hundredth.
Round2(x) ==
    LET q == x \div 10
        r == x % 10
    IN  IF r < 5 THEN 10 * q
        ELSE IF r > 5 THEN 10 * (q + 1)
        ELSE IF q % 2 = 0 THEN 10 * q ELSE 10 * (q + 1)

\* _calculate_confidence
CalculateConfidence(retrieved_docs) ==
    IF retrieved_docs = <<>> THEN 0
    ELSE Round2(Min(retrieved_docs[1].score, 1000))

RECURSIVE JoinParts(_)
JoinParts(parts) ==
    IF parts = <<>> THEN <<>>
    ELSE IF Len(parts) = 1 THEN Head(parts)
    ELSE Head(parts) \o <<NL, NL>> \o JoinParts(Tail(parts))

\* f"[Source: {title}]\n{text}"
ContextPart(doc) ==
    <<"[Source: " \o Get(doc.metadata, "title", "Unknown") \o "]", NL>>
        \o doc.text

SourceOf(doc) ==
    [title |-> Get(doc.metadata, "title", "Unknown"),
     filename |-> Get(doc.metadata, "filename", <<"Unknown">>),
     document_type |-> Get(doc.metadata, "document_type", "unknown"),
     score |-> doc.score,
     rank |-> doc.rank]

\* What a call of query hands back: raised is the exception that escapes
\* it ("none" when it returns), result the returned dict, and retrieval,
\* generation what happened inside.
NoResult == [k \in {} |-> 0]
NoGeneration ==
    [exc |-> NoException, text |-> <<>>, requests |-> 0,
     template |-> "none", num_predict |-> 0]

\* context = "\n\n".join(context_parts) if context_parts else ""
ContextOf(retrieved_docs) ==
    JoinParts([j \in 1..Len(retrieved_docs) |->
                  ContextPart(retrieved_docs[j])])

SourcesOf(retrieved_docs) ==
    [j \in 1..Len(retrieved_docs) |-> SourceOf(retrieved_docs[j])]

\* query from the answer of generate_response on
QueryGenerated(retrieval, context, response, elapsed) ==
    IF response.exc # NoException
    THEN [raised |-> response.exc, result |-> NoResult,
          retrieval |-> retrieval, generation |-> response]
    ELSE [raised |-> NoException,
          result |-> [answer |-> response.text,
                      sources |-> SourcesOf(retrieval.docs),
                      context_length |-> TextLen(context),
                      retrieved_docs |-> Len(retrieval.docs),
                      processing_time |-> elapsed,
                      confidence |-> CalculateConfidence(retrieval.docs)],
          retrieval |-> retrieval, generation |-> response]

\* query from the context on
QueryContext(p, question, max_tokens, env, elapsed, retrieval, context) ==
    IF p.llm_handler = "none"
    THEN [raised |-> "AttributeError", result |-> NoResult,
          retrieval |-> retrieval, generation |-> NoGeneration]
    ELSE QueryGenerated(retrieval, context,
             GenerateResponse(p.llm_handler = "loaded", question, context,
                              max_tokens, env.gen),
             elapsed)

\* query from the retrieved documents on
QueryRetrieved(p, question, max_tokens, env, elapsed, retrieval) ==
    QueryContext(p, question, max_tokens, env, elapsed, retrieval,
                 ContextOf(retrieval.docs))

\* The body of the try block of query; elapsed is time.time() - start_time.
QueryBody(p, db, question, document_id, max_tokens, env, elapsed) ==
    QueryRetrieved(p, question, max_tokens, env, elapsed,
                   RetrieveDocuments(p, db, question, document_id, env))

\* query without its except branch: what the body raises escapes.
CatchQueryReraise(body, elapsed) ==
    [raised |-> body.raised, result |-> body.result,
     retrieval |-> body.retrieval, generation |-> body.generation,
     error |-> body.raised]

\* except Exception: the exception is logged and the apology returned.
CatchQuery(body, elapsed) ==
    IF body.raised # NoException
    THEN [raised |-> NoException,
          result |-> [answer |-> QueryErrorMessage,
                      sources |-> <<>>,
                      context_length |-> 0,
                      retrieved_docs |-> 0,
                      processing_time |-> elapsed,
                      confidence |-> 0],
          retrieval |-> body.retrieval, generation |-> body.generation,
          error |-> body.raised]
    ELSE [raised |-> NoException, result |-> body.result,
          retrieval |-> body.retrieval, generation |-> body.generation,
          error |-> NoException]

\* query
Query(p, db, question, document_id, max_tokens, env, elapsed) ==
    CatchQuery(QueryBody(p, db, question, document_id, max_tokens, env,
                         elapsed),
               elapsed)

(***************************************************************************)
(* Indexing.                                                               *)
(***************************************************************************)
\* filename.replace('.', '_')
Sanitize(filename) ==
    [j \in 1..Len(filename) |-> IF filename[j] = "." THEN "_" ELSE filename[j]]

\* f"doc_{int(time.time() * 1000)}", then f"{doc_id}_{...}" with a filename
DocId(now, filename) == <<"doc", now, Sanitize(filename)>>

\* f"{doc_id}_chunk_{i}"
ChunkId(doc_id, i) == <<doc_id, i>>

ChunkTexts(chunks) == [j \in 1..Len(chunks) |-> chunks[j].text]

ChunkMetadatas(chunks) == [j \in 1..Len(chunks) |-> chunks[j].metadata]

\* ids = [f"{doc_id}_chunk_{i}" for i in range(len(chunks))]
\* Ids numbered from 1 while chunk_id counts from 0.
ChunkIdsFromOne(doc_id, chunks) ==
    [j \in 1..Len(chunks) |-> ChunkId(doc_id, j)]

\* ids = [f"{doc_id}_chunk_{i}" for i in range(len(chunks))]
ChunkIds(doc_id, chunks) ==
    [j \in 1..Len(chunks) |-> ChunkId(doc_id, j - 1)]

\* index_document from collection.add on
IndexAdded(doc_id, added) ==
    IF added.exc # NoException
    THEN [exc |-> added.exc, val |-> NoneId, db |-> added.db]
    ELSE [exc |-> NoException, val |-> doc_id, db |-> added.db]

\* An index_document that stores zero vectors when the embedding fails.
IndexEmbeddedZeroVectors(p, db, doc_id, chunks, embeddings, env) ==
    IF ~p.collection
    THEN [exc |-> "AttributeError", val |-> NoneId, db |-> db]
    ELSE IndexAdded(doc_id,
             CollectionAdd(db, ChunkIds(doc_id, chunks),
                           IF embeddings.exc # NoException
                           THEN [j \in 1..Len(chunks) |-> 0]
                           ELSE embeddings.val,
                           ChunkTexts(chunks), ChunkMetadatas(chunks),
                           env.store))

\* index_document from the embeddings on
IndexEmbedded(p, db, doc_id, chunks, embeddings, env) ==
    IF embeddings.exc # NoException
    THEN [exc |-> embeddings.exc, val |-> NoneId, db |-> db]
    ELSE IF ~p.collection
    THEN [exc |-> "AttributeError", val |-> NoneId, db |-> db]
    ELSE IndexAdded(doc_id,
             CollectionAdd(db, ChunkIds(doc_id, chunks), embeddings.val,
                           ChunkTexts(chunks), ChunkMetadatas(chunks),
                           env.store))

\* index_document from the chunks on
IndexChunks(p, db, doc_id, chunks, env) ==
    IF ~p.embedding_manager
    THEN [exc |-> "AttributeError", val |-> NoneId, db |-> db]
    ELSE IndexEmbedded(p, db, doc_id, chunks,
             EmbedTexts(ChunkTexts(chunks), DefaultBatchSize, env.encoder),
             env)

\* index_document: the new contents of the store, and the returned
\* document id or the exception raised again to the caller.
IndexDocument(p, db, text, filename, now, env) ==
    IndexChunks(p, db, DocId(now, filename),
        ChunkText(text,
            [document_id |-> DocId(now, filename),
             filename |-> IF filename # <<>> THEN filename
                          ELSE <<"unknown">>,
             document_type |-> "user_uploaded",
             indexed_at |-> now]),
        env)

\* The metadata index_legal_documents gives the chunks of a document.
LegalMetadata(doc, now) ==
    [document_id |-> doc.id,
     title |-> doc.title,
     document_type |-> "legal_knowledge",
     category |-> Get(doc, "category", "general"),
     source |-> Get(doc, "source", "unknown"),
     indexed_at |-> now]

\* One turn of the loop of index_legal_documents, from the embeddings on.
IndexLegalEmbedded(p, db, doc, chunks, embeddings, env) ==
    IF embeddings.exc # NoException
    THEN [exc |-> embeddings.exc, db |-> db]
    ELSE IF ~p.collection THEN [exc |-> "AttributeError", db |-> db]
    ELSE CollectionAdd(db, ChunkIds(doc.id, chunks), embeddings.val,
                       ChunkTexts(chunks), ChunkMetadatas(chunks), env.store)

\* One turn of the loop of index_legal_documents, from the chunks on.
IndexLegalChunks(p, db, doc, chunks, env) ==
    IF chunks = <<>> THEN [exc |-> NoException, db |-> db]
    ELSE IF ~p.embedding_manager THEN [exc |-> "AttributeError", db |-> db]
    ELSE IndexLegalEmbedded(p, db, doc, chunks,
             EmbedTexts(ChunkTexts(chunks), DefaultBatchSize, env.encoder),
             env)

\* One turn of the loop of index_legal_documents.
IndexLegalDocument(p, db, doc, now, env) ==
    IndexLegalChunks(p, db, doc, ChunkText(doc.content, LegalMetadata(doc, now)),
                     env)

\* The loop of index_legal_documents after the turn for document j.
RECURSIVE IndexLegalFrom(_, _, _, _, _, _)
IndexLegalNext(p, step, documents, j, now, envs) ==
    IF step.exc # NoException THEN step
    ELSE IndexLegalFrom(p, step.db, documents, j + 1, now, envs)

\* index_legal_documents from document j on; envs[j] is the environment
\* while document j is indexed.  The first exception ends the loop and is
\* raised again.
IndexLegalFrom(p, db, documents, j, now, envs) ==
    IF j > Len(documents) THEN [exc |-> NoException, db |-> db]
    ELSE IndexLegalNext(p,
             IndexLegalDocument(p, db, documents[j], now, envs[j]),
             documents, j, now, envs)

IndexLegalDocuments(p, db, documents, now, envs) ==
    IndexLegalFrom(p, db, documents, 1, now, envs)

(***************************************************************************)
(* clear_user_documents: the failure of either store call is logged and    *)
(* swallowed.  env.get and env.delete are the store's condition at each.   *)
(***************************************************************************)
UserWhere == [document_type |-> "user_uploaded"]
LegalWhere == [document_type |-> "legal_knowledge"]

\* clear_user_documents from collection.delete on
ClearDeleted(db, deleted) ==
    IF deleted.exc # NoException THEN [db |-> db, error |-> deleted.exc]
    ELSE [db |-> deleted.db, error |-> NoException]

\* A clear whose delete has no where clause.
ClearFoundUnfiltered(db, results, env) ==
    IF results.exc # NoException THEN [db |-> db, error |-> results.exc]
    ELSE IF results.ids = <<>> THEN [db |-> db, error |-> NoException]
    ELSE ClearDeleted(db, CollectionDelete(db, NoWhere, env.delete))

\* clear_user_documents from the result of collection.get on
ClearFound(db, results, env) ==
    IF results.exc # NoException THEN [db |-> db, error |-> results.exc]
    ELSE IF results.ids = <<>> THEN [db |-> db, error |-> NoException]
    ELSE ClearDeleted(db, CollectionDelete(db, UserWhere, env.delete))

ClearUserDocuments(p, db, env) ==
    IF ~p.collection THEN [db |-> db, error |-> "AttributeError"]
    ELSE ClearFound(db, CollectionGet(db, UserWhere, env.get), env)

\* What a call that returns a number n hands back is <<n>>;
\* clear_user_documents has no return statement and hands back None, <<>>.
ReturnsNone == <<>>

\* clear_session from the return of clear_user_documents on: nothing was
\* raised, so the reply is the success one.
ClearSessionCleared(cleared) ==
    [db |-> cleared.db, error |-> cleared.error, returned |-> ReturnsNone,
     status |-> 200, success |-> TRUE]

\* clear_session (app.py)
ClearSession(p, db, env) ==
    ClearSessionCleared(ClearUserDocuments(p, db, env))

(***************************************************************************)
(* get_document_count: three requests to the store, one after the other,   *)
(* with no lock around them; a failure of any of them gives three zeros.   *)
(***************************************************************************)
\* the except branch of get_document_count
ZeroCounts == [total |-> 0, legal_knowledge |-> 0, user_uploaded |-> 0]

\* total_count = self.collection.count()
CountTotal(p, db, store) ==
    IF ~p.collection THEN [exc |-> "AttributeError", val |-> 0]
    ELSE IF store # "ok" THEN [exc |-> "StoreError", val |-> 0]
    ELSE [exc |-> NoException, val |-> CollectionCount(db)]

\* len(results["ids"]) if results["ids"] else 0, of collection.get(where)
CountOfType(db, where, store) ==
    LET results == CollectionGet(db, where, store)
    IN  [exc |-> results.exc, val |-> Len(results.ids)]

\* the dictionary get_document_count returns
DocumentCounts(total_count, legal_count, user_count) ==
    [total |-> total_count, legal_knowledge |-> legal_count,
     user_uploaded |-> user_count]

(***************************************************************************)
(* Construction and RAGPipeline.initialize.                                *)
(***************************************************************************)
\* RAGPipeline.__init__
Constructed ==
    [collection |-> FALSE, embedding_manager |-> FALSE,
     llm_handler |-> "none", reranker_model |-> FALSE]

\* _test_model: generate_response is called while model_loaded is still
\* False.  service tells what a generation request would meet.
TestModel(service) ==
    GenerateResponse(FALSE, <<"What is law?">>, <<>>, 50,
                     IF service = "mute" THEN [kind |-> "error", text |-> <<>>]
                     ELSE [kind |-> "ok", text |-> <<"x">>])

\* LLMHandler.initialize: service is "ok" when Ollama runs (or starts), the
\* model is there (or is pulled) and generates, "mute" when the model is
\* listed but the service cannot generate, "fail" when Ollama cannot be
\* reached or the model cannot be pulled.  test_requests counts the
\* generation requests of _test_model.
LLMInitialize(service) ==
    IF service = "fail"
    THEN [exc |-> "Exception", model_loaded |-> FALSE, test_requests |-> 0]
    ELSE IF Strip(TestModel(service).text) = <<>>
    THEN [exc |-> "Exception", model_loaded |-> FALSE,
          test_requests |-> TestModel(service).requests]
    ELSE [exc |-> NoException, model_loaded |-> TRUE,
          test_requests |-> TestModel(service).requests]

\* initialize: boot gives the outcome of each step (chromadb, embedder,
\* llm, reranker).  The first three failures are raised again;
\* _init_reranker swallows its own.
Initialize(p, boot) ==
    LET llm == LLMInitialize(boot.llm)
        p1 == [p EXCEPT !.collection = TRUE]
        p2 == [p1 EXCEPT !.embedding_manager = TRUE]
        p3 == [p2 EXCEPT !.llm_handler =
                   IF llm.model_loaded THEN "loaded" ELSE "unloaded"]
        p4 == [p3 EXCEPT !.reranker_model = (boot.reranker = "ok")]
    IN  IF boot.chromadb # "ok"
        THEN [exc |-> "StoreError", p |-> p, test_requests |-> 0]
        ELSE IF boot.embedder # "ok"
        THEN [exc |-> "LoadError", p |-> p1, test_requests |-> 0]
        ELSE IF llm.exc # NoException
        THEN [exc |-> llm.exc, p |-> p3,
              test_requests |-> llm.test_requests]
        ELSE [exc |-> NoException, p |-> p4,
              test_requests |-> llm.test_requests]

(***************************************************************************)
(* The inputs of the calls.                                                *)
(***************************************************************************)
Conditions == {"ok", "fail"}

\* LegalKnowledgeBase.get_all_documents(): what the data directory held
\* when the process started; the files may change between two starts.
LegalDocuments(version) ==
    << [id |-> <<"pdf", 1, <<>>>>,
        title |-> "The Sale of Goods Act, 1930",
        content |-> IF version = 1 THEN <<"a", " ", "b">>
                    ELSE <<"a", " ", "b", NL, "c">>,
        category |-> "commercial_law",
        source |-> "India Code"],
       [id |-> <<"pdf", 2, <<>>>>,
        title |-> "The Limitation Act, 1963",
        content |-> <<"c">>,
        category |-> "procedural_law",
        source |-> "India Code"] >>

LegalVersions == {1, 2}

\* A library of k documents of one chunk each: document j holds the words
\* among a, b, c, c that the binary digits of j select.
LibraryContent(j) ==
    LET words == <<"a", "b", "c", "c">>
        Chosen(i) == (j \div (2 ^ (i - 1))) % 2 = 1
        chosen == SelectSeq(<<1, 2, 3, 4>>, Chosen)
    IN  JoinSpace([i \in 1..Len(chosen) |-> words[chosen[i]]])

LegalLibrary(k) ==
    [j \in 1..k |->
        [id |-> <<"pdf", j, <<>>>>,
         title |-> "Act " \o ToString(j),
         content |-> LibraryContent(j),
         category |-> "general",
         source |-> "India Code"]]

UploadTexts == { <<"a">>, <<"c", " ", "b">>, <<" ">>, <<>> }

Filenames == { <<>>, <<"f", ".", "p">> }

Questions == { <<"a">>, <<" ">> }

MaxTokens == {1000, 3000}

\* The document ids a caller may pass: none, "", the id of a document of
\* the store, or the id "doc_0", in the store or not.
DocumentIdArgs(db) ==
    {NoneId, EmptyId, DocId(0, <<>>)}
        \cup {db[j].metadata.document_id : j \in DOMAIN db}

RawResponses == { <<"Answer:", " ", "x", NL, "x">>, <<"Answer:", " ">> }

GenOutcomes ==
    {[kind |-> "ok", text |-> t] : t \in RawResponses}
    \cup {[kind |-> k, text |-> <<>>] : k \in {"non200", "timeout", "error"}}

\* The conditions one query can meet.  A failing collaborator ends
\* retrieval, so the ones after it are not called and have no condition
\* of their own: at most one of encoder, store and scorer fails.
RetrievalEnvs ==
    {[encoder |-> "ok", store |-> "ok", scorer |-> "ok"],
     [encoder |-> "fail", store |-> "ok", scorer |-> "ok"],
     [encoder |-> "ok", store |-> "fail", scorer |-> "ok"],
     [encoder |-> "ok", store |-> "ok", scorer |-> "fail"]}

QueryEnvs ==
    {[encoder |-> r.encoder, store |-> r.store, scorer |-> r.scorer,
      gen |-> g] : r \in RetrievalEnvs, g \in GenOutcomes}

IndexEnvs == [encoder : Conditions, store : Conditions]

OkIndexEnv == [encoder |-> "ok", store |-> "ok"]

\* The conditions the documents of one index_legal_documents call meet: the
\* collaborators fail for at most one document of the list.
LegalEnvs ==
    {[j \in 1..2 |-> IF j = fail_at THEN bad ELSE OkIndexEnv] :
        fail_at \in 0..2, bad \in IndexEnvs}

ClearEnvs == [get : Conditions, delete : Conditions]

Boots == [chromadb : Conditions, embedder : Conditions,
          llm : Conditions \cup {"mute"}, reranker : Conditions]

\* The lists of at most n elements of S.
SeqsUpTo(S, n) == UNION {[1..k -> S] : k \in 0..n}

\* The j-th word of a long text.
Word(j) == ToString(j)

\* A text of n different words, after lead whitespace characters, with gap
\* whitespace characters (a space, then a newline) between two words.
TextOfWords(n, gap, lead) ==
    LET unit == 1 + gap
        len == IF n = 0 THEN 0 ELSE (n - 1) * unit + 1
    IN  [p \in 1..(lead + len) |->
            IF p <= lead THEN " "
            ELSE IF (p - lead - 1) % unit = 0
                 THEN Word(((p - lead - 1) \div unit) + 1)
            ELSE IF (p - lead - 1) % unit = 1 THEN " " ELSE NL]

\* The numbers of words tried: those around the multiples of the stride,
\* around the overlap and around chunk_size.
WordCounts ==
    {n \in 0..MaxWords :
        n % ChunkStride \in {0, 1, chunk_overlap - 1, chunk_overlap,
                             chunk_overlap + 1, ChunkStride - 1}}

\* secure_filename(f"{file_id}_{file.filename}") of upload_file
UploadFilename(file_id) == <<ToString(file_id), "_", "f", ".", "p">>

\* The numbers of words of the long uploads: one chunk, two and three.
LongWordCounts == {ChunkStride, ChunkStride + 1, 2 * ChunkStride + 1}

\* The text of a long upload: n words, the first one a, the first of the
\* second chunk b and the first of the third c, so that the chunks have
\* different embeddings.
LongText(n) ==
    LET text == TextOfWords(n, 1, 0)
    IN  [q \in 1..Len(text) |->
            IF q = 1 THEN "a"
            ELSE IF q = 2 * ChunkStride + 1 THEN "b"
            ELSE IF q = 4 * ChunkStride + 1 THEN "c"
            ELSE text[q]]

\* metadata=None, and the metadata of a call
ChunkMetadata == {NoWhere, UserWhere}

\* The documents handed to the reranker.
CandidateTexts == { <<"a">>, <<"c">>, <<"c", " ", "b">> }

\* The generated texts handed to _post_process_response: with the echo
\* of the prompt's last word in front, in the middle of a sentence, at both
\* places, and nowhere.
GeneratedTexts ==
    { <<"Answer:", " ", "x", NL, "y">>,
      <<"x", " ", "Answer:", " ", "y">>,
      <<"Response:", " ", "x", " ", "Response:", " ", "y">>,
      <<"x", NL, "x", NL, "y">> }

\* The texts handed to embed_texts.
EmbedInputs == { <<"a">>, <<" ", "b">>, <<" ">>, <<>> }

(***************************************************************************)
(* The state.                                                              *)
(*   pipeline    the RAGPipeline object of the running process             *)
(*   collection  the persisted contents of the ChromaDB collection         *)
(*   app         how far init_app has come in the running process          *)
(*   clock       time.time(), in milliseconds                              *)
(*   last        the call being answered and what it returns; "idle"       *)
(*               between two calls                                         *)
(*   counting    how far a get_document_count call has come, and the       *)
(*               counts it has read so far                                 *)
(***************************************************************************)
VARIABLES pipeline, collection, app, clock, last, counting

vars == <<pipeline, collection, app, clock, last, counting>>

CountWhere(db, where) == Len(Matching(db, where))

Idle == [op |-> "idle"]

\* get_document_count is not running
NotCounting == [pc |-> "idle"]

\* The legal_knowledge records of the store
LegalStored(db) == Range(Matching(db, LegalWhere))

Init ==
    /\ pipeline = Constructed
    /\ collection = <<>>
    /\ app = "constructed"
    /\ clock = 0
    /\ last = Idle
    /\ counting = NotCounting

\* init_app: rag_pipeline.initialize()
DoInitialize ==
    /\ last = Idle
    /\ app = "constructed"
    /\ \E boot \in Boots :
        LET r == Initialize(pipeline, boot)
        IN  /\ pipeline' = r.p
            /\ app' = IF r.exc = NoException THEN "initialized" ELSE "aborted"
            /\ last' = [op |-> "initialize", raised |-> r.exc, boot |-> boot,
                        test_requests |-> r.test_requests]
    /\ UNCHANGED <<collection, clock, counting>>

\* init_app: rag_pipeline.index_legal_documents(legal_kb.get_all_documents())
DoIndexLegalDocuments ==
    /\ last = Idle
    /\ app = "initialized"
    /\ \E version \in LegalVersions, envs \in LegalEnvs :
        LET documents == LegalDocuments(version)
            r == IndexLegalDocuments(pipeline, collection, documents, clock,
                                     envs)
        IN  /\ collection' = r.db
            /\ app' = IF r.exc = NoException THEN "serving" ELSE "aborted"
            /\ last' = [op |-> "index_legal_documents", raised |-> r.exc,
                        documents |-> documents, now |-> clock,
                        envs |-> envs]
    /\ UNCHANGED <<pipeline, clock, counting>>

\* init_app: index_legal_documents on a data directory of k documents, all
\* of them embedded and stored.
DoIndexLegalLibrary ==
    /\ last = Idle
    /\ app = "initialized"
    /\ \E k \in 0..MaxLibrary :
        LET documents == LegalLibrary(k)
            envs == [j \in 1..k |-> OkIndexEnv]
            r == IndexLegalDocuments(pipeline, collection, documents, clock,
                                     envs)
        IN  /\ collection' = r.db
            /\ app' = IF r.exc = NoException THEN "serving" ELSE "aborted"
            /\ last' = [op |-> "index_legal_documents", raised |-> r.exc,
                        documents |-> documents, now |-> clock,
                        envs |-> envs]
    /\ UNCHANGED <<pipeline, clock, counting>>

\* upload_file: rag_pipeline.index_document(extracted_text, filename)
DoIndexDocument ==
    /\ last = Idle
    /\ \E text \in UploadTexts, filename \in Filenames, env \in IndexEnvs :
        LET r == IndexDocument(pipeline, collection, text, filename, clock,
                               env)
        IN  /\ CountWhere(r.db, UserWhere) <= MaxUserRecords
            /\ collection' = r.db
            /\ last' = [op |-> "index_document", raised |-> r.exc,
                        returned |-> r.val, text |-> text,
                        filename |-> filename, now |-> clock,
                        before |-> collection]
    /\ UNCHANGED <<pipeline, app, clock, counting>>

\* upload_file, once initialize has returned: index_document of a text of
\* several chunks under the file name upload_file builds, whose uuid4 no
\* earlier upload has had.
DoIndexLongDocument ==
    /\ last = Idle
    /\ app \in {"initialized", "serving"}
    /\ \E n \in LongWordCounts, file_id \in 1..MaxUploads, env \in IndexEnvs :
        LET text == LongText(n)
            filename == UploadFilename(file_id)
            r == IndexDocument(pipeline, collection, text, filename, clock,
                               env)
        IN  /\ \A j \in DOMAIN collection :
                  Get(collection[j].metadata, "filename", <<>>) # filename
            /\ CountWhere(r.db, UserWhere) <= MaxLongRecords
            /\ collection' = r.db
            /\ last' = [op |-> "index_document", raised |-> r.exc,
                        returned |-> r.val, text |-> text,
                        filename |-> filename, now |-> clock,
                        env |-> env, before |-> collection]
    /\ UNCHANGED <<pipeline, app, clock, counting>>

\* clear_session: rag_pipeline.clear_user_documents()
DoClearUserDocuments ==
    /\ last = Idle
    /\ \E env \in ClearEnvs :
        LET r == ClearSession(pipeline, collection, env)
        IN  /\ collection' = r.db
            /\ last' = [op |-> "clear_user_documents", error |-> r.error,
                        returned |-> r.returned, status |-> r.status,
                        success |-> r.success,
                        env |-> env, before |-> collection]
    /\ UNCHANGED <<pipeline, app, clock, counting>>

\* A query that gives up the reranker for good once scoring has failed.
DoQueryDroppingReranker ==
    /\ last = Idle
    /\ \E question \in Questions,
          document_id \in DocumentIdArgs(collection),
          max_tokens \in MaxTokens,
          env \in QueryEnvs :
        /\ last' = [op |-> "query", question |-> question,
                    document_id |-> document_id, max_tokens |-> max_tokens,
                    env |-> env,
                    out |-> Query(pipeline, collection, question,
                                  document_id, max_tokens, env, 0)]
        /\ pipeline' = IF env.scorer = "fail"
                        THEN [pipeline EXCEPT !.reranker_model = FALSE]
                        ELSE pipeline
    /\ UNCHANGED <<collection, app, clock, counting>>

\* chat: rag_pipeline.query(user_message, document_id, max_tokens)
DoQuery ==
    /\ last = Idle
    /\ \E question \in Questions,
          document_id \in DocumentIdArgs(collection),
          max_tokens \in MaxTokens,
          env \in QueryEnvs :
        last' = [op |-> "query", question |-> question,
                 document_id |-> document_id, max_tokens |-> max_tokens,
                 env |-> env,
                 out |-> Query(pipeline, collection, question, document_id,
                               max_tokens, env, clock - clock)]
    /\ UNCHANGED <<pipeline, collection, app, clock, counting>>

\* health_check, served once init_app has returned: get_document_count,
\* first request: collection.count()
DoCountTotal ==
    /\ last = Idle
    /\ app = "serving"
    /\ counting = NotCounting
    /\ \E store \in Conditions :
        LET r == CountTotal(pipeline, collection, store)
        IN  IF r.exc # NoException
            THEN /\ last' = [op |-> "get_document_count", error |-> r.exc,
                             out |-> ZeroCounts]
                 /\ counting' = NotCounting
            ELSE /\ counting' = [pc |-> "legal", total_count |-> r.val]
                 /\ last' = last
    /\ UNCHANGED <<pipeline, collection, app, clock>>

\* get_document_count, second request: get(where legal_knowledge)
DoCountLegal ==
    /\ last = Idle
    /\ counting.pc = "legal"
    /\ \E store \in Conditions :
        LET r == CountOfType(collection, LegalWhere, store)
        IN  IF r.exc # NoException
            THEN /\ last' = [op |-> "get_document_count", error |-> r.exc,
                             out |-> ZeroCounts]
                 /\ counting' = NotCounting
            ELSE /\ counting' = [pc |-> "user",
                                 total_count |-> counting.total_count,
                                 legal_count |-> r.val]
                 /\ last' = last
    /\ UNCHANGED <<pipeline, collection, app, clock>>

\* get_document_count, third request: get(where user_uploaded), and return
DoCountUser ==
    /\ last = Idle
    /\ counting.pc = "user"
    /\ \E store \in Conditions :
        LET r == CountOfType(collection, UserWhere, store)
        IN  last' = [op |-> "get_document_count", error |-> r.exc,
                     out |-> IF r.exc # NoException THEN ZeroCounts
                             ELSE DocumentCounts(counting.total_count,
                                                 counting.legal_count,
                                                 r.val)]
    /\ counting' = NotCounting
    /\ UNCHANGED <<pipeline, collection, app, clock>>

\* _chunk_text(text, metadata)
DoChunkText ==
    /\ last = Idle
    /\ \E n \in WordCounts, gap \in 1..2, lead \in 0..1,
          metadata \in ChunkMetadata :
        last' = [op |-> "chunk_text", n |-> n,
                 text |-> TextOfWords(n, gap, lead),
                 metadata |-> metadata,
                 chunks |-> ChunkText(TextOfWords(n, gap, lead), metadata)]
    /\ UNCHANGED <<pipeline, collection, app, clock, counting>>

\* embed_texts(texts, batch_size)
DoEmbedTexts ==
    /\ last = Idle
    /\ \E texts \in SeqsUpTo(EmbedInputs, MaxTexts),
          batch_size \in 1..MaxBatch, encoder \in Conditions :
        last' = [op |-> "embed_texts", texts |-> texts,
                 batch_size |-> batch_size, encoder |-> encoder,
                 out |-> EmbedTexts(texts, batch_size, encoder)]
    /\ UNCHANGED <<pipeline, collection, app, clock, counting>>

\* _rerank_results(query, documents, scores)
DoRerankResults ==
    /\ last = Idle
    /\ \E query \in Questions,
          documents \in SeqsUpTo(CandidateTexts, MaxCandidates),
          reranker_model \in BOOLEAN, scorer \in Conditions :
        last' = [op |-> "rerank_results", query |-> query,
                 documents |-> documents,
                 reranker_model |-> reranker_model, scorer |-> scorer,
                 out |-> RerankResults(reranker_model, query, documents,
                                       scorer)]
    /\ UNCHANGED <<pipeline, collection, app, clock, counting>>

\* _post_process_response(response)
DoPostProcessResponse ==
    /\ last = Idle
    /\ \E response \in GeneratedTexts :
        last' = [op |-> "post_process_response", response |-> response,
                 out |-> PostProcessResponse(response)]
    /\ UNCHANGED <<pipeline, collection, app, clock, counting>>

\* time passes
Tick ==
    /\ last = Idle
    /\ clock < MaxClock
    /\ clock' = clock + 1
    /\ UNCHANGED <<pipeline, collection, app, last, counting>>

\* The process ends and a new one starts on the persisted store.
Restart ==
    /\ last = Idle
    /\ pipeline' = Constructed
    /\ app' = "constructed"
    /\ counting' = NotCounting
    /\ UNCHANGED <<collection, clock, last>>

\* The caller takes the result of the call.
Respond ==
    /\ last # Idle
    /\ last' = Idle
    /\ UNCHANGED <<pipeline, collection, app, clock, counting>>

Next ==
    \/ DoInitialize
    \/ DoIndexLegalDocuments
    \/ DoIndexLegalLibrary
    \/ DoIndexDocument
    \/ DoIndexLongDocument
    \/ DoClearUserDocuments
    \/ DoQuery
    \/ DoCountTotal
    \/ DoCountLegal
    \/ DoCountUser
    \/ DoChunkText
    \/ DoEmbedTexts
    \/ DoRerankResults
    \/ DoPostProcessResponse
    \/ Tick
    \/ Restart
    \/ Respond

Spec == Init /\ [][Next]_vars

\* The calls that write the store, with no query among them.
NextStore ==
    \/ DoInitialize
    \/ DoIndexLegalDocuments
    \/ DoIndexDocument
    \/ DoClearUserDocuments
    \/ Tick
    \/ Restart
    \/ Respond

SpecStore == Init /\ [][NextStore]_vars

\* Queries between the other calls, with the clock stopped: query reads
\* the clock only to measure processing_time.
NextQuery ==
    \/ DoInitialize
    \/ DoIndexLegalDocuments
    \/ DoIndexDocument
    \/ DoClearUserDocuments
    \/ DoQuery
    \/ Restart
    \/ Respond

SpecQuery == Init /\ [][NextQuery]_vars

\* One process from its start on: the store is written, nothing restarts.
NextUpload ==
    \/ DoInitialize
    \/ DoIndexLegalDocuments
    \/ DoIndexDocument
    \/ DoClearUserDocuments
    \/ Tick
    \/ Respond

SpecUpload == Init /\ [][NextUpload]_vars

\* The calls of the functions that read and write no state.
NextPure ==
    \/ DoChunkText
    \/ DoEmbedTexts
    \/ DoRerankResults
    \/ DoPostProcessResponse
    \/ Respond

SpecPure == Init /\ [][NextPure]_vars

\* One process serving: uploads, clears, queries and document counts, the
\* three requests of a count interleaved with the other calls.
NextServe ==
    \/ DoInitialize
    \/ DoIndexLegalDocuments
    \/ DoIndexDocument
    \/ DoClearUserDocuments
    \/ DoQuery
    \/ DoCountTotal
    \/ DoCountLegal
    \/ DoCountUser
    \/ Respond

SpecServe == Init /\ [][NextServe]_vars

\* One process taking uploads of several chunks, all within one
\* millisecond.
NextLong ==
    \/ DoInitialize
    \/ DoIndexLongDocument
    \/ DoClearUserDocuments
    \/ Respond

SpecLong == Init /\ [][NextLong]_vars

\* Queries on a legal library of more documents than a query keeps.
NextLibrary ==
    \/ DoInitialize
    \/ DoIndexLegalLibrary
    \/ DoQuery
    \/ Respond

SpecLibrary == Init /\ [][NextLibrary]_vars

(***************************************************************************)
(* Properties.  last holds the call just made and what it returned;        *)
(* pipeline and collection are the objects the call has left behind.       *)
(***************************************************************************)
Max(a, b) == IF a > b THEN a ELSE b

ResultKeys ==
    {"answer", "sources", "confidence", "context_length", "retrieved_docs",
     "processing_time"}

\* The embedding retrieve_documents computes for a non-blank question.
QuestionEmbedding(question) == Encode(Strip(question))

\* The hits the store gives the last query when every collaborator works.
HitsOfLast ==
    CollectionQuery(collection, QuestionEmbedding(last.question),
                    top_k_retrieval, WhereClause(last.document_id), "ok")

\* The last query reaches the reranker with at least one candidate.
LastReachesReranker ==
    /\ last.op = "query"
    /\ pipeline.embedding_manager /\ pipeline.collection
    /\ IsNonBlank(last.question)
    /\ last.env.encoder = "ok" /\ last.env.store = "ok"
    /\ HitsOfLast.documents # <<>>

\* C1: after a clear_user_documents whose two store requests are served,
\* no record of type user_uploaded is left, and the records of type
\* legal_knowledge are the ones held before the call, whatever the store
\* held; when a request fails nothing is deleted, so the legal records are
\* unchanged after every call.
C1_ClearRemovesOnlyUserDocuments ==
    (last.op = "clear_user_documents") =>
        /\ Matching(collection, LegalWhere)
               = Matching(last.before, LegalWhere)
        /\ CountWhere(collection, LegalWhere)
               = CountWhere(last.before, LegalWhere)
        /\ (last.error = NoException) =>
               CountWhere(collection, UserWhere) = 0

C1_Witness ==
    /\ last.op = "clear_user_documents"
    /\ last.error = NoException
    /\ CountWhere(last.before, UserWhere) > 0
    /\ CountWhere(last.before, LegalWhere) > 0
    /\ CountWhere(collection, LegalWhere) > 0

\* C2: a query given a document_id (a non-empty one) retrieves, and names
\* as sources, only chunks stored under that document_id, even when chunks
\* of other documents are nearer to the question.
C2_DocumentIdRestrictsRetrieval ==
    (last.op = "query" /\ Truthy(last.document_id)) =>
        /\ \A j \in DOMAIN last.out.retrieval.docs :
              last.out.retrieval.docs[j].metadata.document_id
                  = last.document_id
        /\ \A j \in DOMAIN last.out.retrieval.candidates :
              \E r \in Range(collection) :
                  /\ r.id = last.out.retrieval.candidates[j]
                  /\ r.metadata.document_id = last.document_id
        /\ \A j \in DOMAIN last.out.result.sources :
              \E r \in Range(collection) :
                  /\ r.metadata.document_id = last.document_id
                  /\ last.out.result.sources[j] =
                         [title |-> Get(r.metadata, "title", "Unknown"),
                          filename |->
                              Get(r.metadata, "filename", <<"Unknown">>),
                          document_type |-> r.metadata.document_type,
                          score |-> 1000 - CosineDistance(
                                        QuestionEmbedding(last.question),
                                        r.embedding),
                          rank |-> j]

\* A filtered query that names a source while a record of another
\* document is strictly nearer to the question.
C2_Witness ==
    /\ last.op = "query"
    /\ Truthy(last.document_id)
    /\ Len(last.out.result.sources) >= 1
    /\ \E r \in Range(collection) :
          /\ r.metadata.document_id # last.document_id
          /\ 1000 - CosineDistance(QuestionEmbedding(last.question),
                                   r.embedding)
                 > last.out.result.sources[1].score

\* The records index_legal_documents builds from one document at time now.
LegalRecords(doc, now) ==
    LET chunks == ChunkText(doc.content, LegalMetadata(doc, now))
        embeddings ==
            EmbedTexts(ChunkTexts(chunks), DefaultBatchSize, "ok").val
    IN  {[id |-> ChunkId(doc.id, j - 1),
          embedding |-> embeddings[j],
          document |-> chunks[j].text,
          metadata |-> chunks[j].metadata] : j \in DOMAIN chunks}

\* C3: indexing a legal document whose chunk ids are already stored is not
\* an error and replaces the stored records: after an index_legal_documents
\* that returns, every chunk of every document it was given is stored, under
\* its id, with the text, embedding and metadata of this latest indexing,
\* and no id is stored twice.
C3_ReindexReplaces ==
    (last.op = "index_legal_documents" /\ last.raised = NoException) =>
        /\ \A d \in DOMAIN last.documents :
              LegalRecords(last.documents[d], last.now)
                  \subseteq Range(collection)
        /\ Cardinality(StoredIds(collection)) = Len(collection)

\* C4: query never raises: whatever fails inside, it returns a dict with
\* the six fields answer, sources, confidence, context_length,
\* retrieved_docs and processing_time.
C4_QueryAlwaysReturns ==
    (last.op = "query") =>
        /\ last.out.raised = NoException
        /\ DOMAIN last.out.result = ResultKeys

\* A query whose body raised, and one whose retrieval failed inside.
C4_Witness ==
    /\ last.op = "query"
    /\ last.out.error # NoException
    /\ DOMAIN last.out.result = ResultKeys

\* C5: when something fails inside the processing of a query (the store,
\* the embedding, a missing component), the answer is the fixed apology,
\* the sources are empty and the confidence is 0.
C5_FailureGivesApology ==
    (/\ last.op = "query"
     /\ \/ last.out.error # NoException
        \/ last.out.retrieval.error # NoException) =>
        /\ last.out.result.answer = QueryErrorMessage
        /\ last.out.result.sources = <<>>
        /\ last.out.result.confidence = 0

\* The last query run again with a generation service that answers.
LastQueryAnswered ==
    Query(pipeline, collection, last.question, last.document_id,
          last.max_tokens,
          [last.env EXCEPT !.gen = [kind |-> "ok", text |-> <<"x">>]], 0)

\* C6: when the generation request of a query times out after documents
\* were retrieved, query returns normally: the answer is the timeout
\* message, and sources, retrieved_docs and confidence are the ones the
\* retrieval gives (those of the same query with a service that answers).
C6_TimeoutKeepsSources ==
    (/\ last.op = "query"
     /\ last.env.gen.kind = "timeout"
     /\ pipeline.llm_handler = "loaded"
     /\ Len(last.out.retrieval.docs) >= 1) =>
        /\ last.out.raised = NoException
        /\ last.out.result.answer = TimeoutMessage
        /\ last.out.result.sources # <<>>
        /\ last.out.result.sources = SourcesOf(last.out.retrieval.docs)
        /\ last.out.result.sources = LastQueryAnswered.result.sources
        /\ last.out.result.retrieved_docs
               = LastQueryAnswered.result.retrieved_docs
        /\ last.out.result.confidence
               = LastQueryAnswered.result.confidence

C6_Witness ==
    /\ last.op = "query"
    /\ last.env.gen.kind = "timeout"
    /\ last.out.generation.requests = 1
    /\ Len(last.out.retrieval.docs) >= 2
    /\ last.out.result.answer = TimeoutMessage
    /\ last.out.result.confidence > 0

\* C7: generate_response turns each failure of its request into a string
\* of its own and raises nothing: a timeout gives the timeout message, a
\* status other than 200 the technical-difficulties message, any other
\* exception the generic message; the three strings differ from each other
\* and from the strings of the other outcomes.
C7_FailureMessages ==
    (last.op = "query" /\ last.out.generation.requests = 1) =>
        /\ last.out.generation.exc = NoException
        /\ last.out.result.answer = last.out.generation.text
        /\ (last.env.gen.kind = "timeout") =>
               last.out.generation.text = TimeoutMessage
        /\ (last.env.gen.kind = "non200") =>
               last.out.generation.text = ApiErrorMessage
        /\ (last.env.gen.kind = "error") =>
               last.out.generation.text = GenerationErrorMessage
        /\ (last.env.gen.kind = "ok") =>
               last.out.generation.text
                   \notin {TimeoutMessage, ApiErrorMessage,
                           GenerationErrorMessage}
        /\ Cardinality({TimeoutMessage, ApiErrorMessage,
                        GenerationErrorMessage, EmptyResponseMessage,
                        NotLoadedMessage}) = 5

C7_Witness ==
    /\ last.op = "query"
    /\ last.out.generation.requests = 1
    /\ last.env.gen.kind = "timeout"
    /\ last.out.result.answer = TimeoutMessage
    /\ last.out.result.answer # GenerationErrorMessage

\* C8: a query against an empty store returns normally with
\* retrieved_docs 0, confidence 0, no sources and a non-empty answer; no
\* prompt with a context is built, and the request made by a loaded
\* handler carries the general-knowledge prompt.
C8_EmptyStore ==
    (last.op = "query" /\ collection = <<>>) =>
        /\ last.out.raised = NoException
        /\ last.out.result.retrieved_docs = 0
        /\ last.out.result.confidence = 0
        /\ last.out.result.sources = <<>>
        /\ last.out.result.context_length = 0
        /\ Strip(last.out.result.answer) # <<>>
        /\ last.out.generation.template # "context"
        /\ (pipeline.llm_handler = "loaded") =>
               /\ last.out.generation.requests = 1
               /\ last.out.generation.template = "general"

\* The empty store queried through a working pipeline whose model returns
\* nothing but the "Answer:" label.
C8_Witness ==
    /\ last.op = "query"
    /\ collection = <<>>
    /\ pipeline.llm_handler = "loaded"
    /\ pipeline.collection /\ pipeline.embedding_manager
    /\ last.env.gen = [kind |-> "ok", text |-> <<"Answer:", " ">>]
    /\ last.out.generation.template = "general"
    /\ last.out.result.answer = EmptyResponseMessage

\* C9: the confidence of a query result lies in [0, 1]: it is 0 when no
\* document is retrieved, and otherwise 1 minus the cosine distance of the
\* document of rank 1, clamped to [0, 1] and rounded to two decimals, for
\* every distance from 0 to 2.
C9_ConfidenceClamped ==
    (last.op = "query") =>
        LET docs == last.out.retrieval.docs
            confidence == last.out.result.confidence
        IN  /\ 0 <= confidence /\ confidence <= 1000
            /\ (last.out.result.retrieved_docs = 0) => confidence = 0
            /\ (last.out.result.retrieved_docs >= 1) =>
                   confidence = Round2(Max(0, Min(docs[1].score, 1000)))

\* C10: _rerank_results gives the identity order when there is no reranker
\* model or when scoring fails, and nothing for no candidates; retrieval
\* goes on and returns the store's hits in the store's order.
C10_RerankFallsBackToIdentity ==
    /\ RerankResults(pipeline.reranker_model, <<"a">>, <<>>, "ok").val = <<>>
    /\ (/\ LastReachesReranker
        /\ (~pipeline.reranker_model \/ last.env.scorer = "fail")) =>
            LET n == Len(HitsOfLast.documents)
                docs == last.out.retrieval.docs
            IN  /\ last.out.retrieval.error = NoException
                /\ last.out.retrieval.perm = Identity(n)
                /\ Len(docs) = Min(n, top_k_rerank)
                /\ \A j \in DOMAIN docs :
                      /\ docs[j].text = HitsOfLast.documents[j]
                      /\ docs[j].metadata = HitsOfLast.metadatas[j]
                      /\ docs[j].score = 1000 - HitsOfLast.distances[j]
                      /\ docs[j].rank = j

\* Scoring fails on a loaded reranker that would have changed the order.
C10_Witness ==
    /\ LastReachesReranker
    /\ pipeline.reranker_model
    /\ last.env.scorer = "fail"
    /\ Len(last.out.retrieval.docs) >= 2
    /\ last.out.retrieval.perm = Identity(Len(HitsOfLast.documents))
    /\ Reverse(ArgSort(RerankScores(last.question, HitsOfLast.documents)))
           # last.out.retrieval.perm

\* C11: when the reranker scores the candidates, the order it returns is
\* a permutation of the candidates by descending score in which candidates
\* of equal score keep their original order.
C11_RerankStableDescending ==
    (/\ last.op = "rerank_results"
     /\ last.reranker_model /\ last.scorer = "ok"
     /\ last.documents # <<>>) =>
        LET perm == last.out.val
            scores == RerankScores(last.query, last.documents)
            n == Len(last.documents)
        IN  /\ Len(perm) = n
            /\ Range(perm) = 0..(n - 1)
            /\ \A i, j \in 1..n :
                  i < j =>
                    /\ scores[perm[i] + 1] >= scores[perm[j] + 1]
                    /\ (scores[perm[i] + 1] = scores[perm[j] + 1]) =>
                           perm[i] < perm[j]

\* The words of a chunk, and its word range.
ChunkWords(chunk) == Split(chunk.text)
ChunkStart(chunk) == chunk.metadata.start_word
ChunkEnd(chunk) == chunk.metadata.end_word

\* C12: a non-empty text of fewer than chunk_size words gives exactly one
\* chunk.
C12_ShortTextOneChunk ==
    (/\ last.op = "chunk_text"
     /\ 1 <= Len(Split(last.text))
     /\ Len(Split(last.text)) < chunk_size) =>
        Len(last.chunks) = 1

\* C13: for every text of n words, chunk k starts at word
\* k * (chunk_size - chunk_overlap), ends at min(start + chunk_size, n) and
\* holds the words of that range; the starts increase strictly and the
\* ends never decrease; two consecutive chunks share exactly chunk_overlap
\* words, except that the last chunk may share fewer with the one before.
C13_ChunkRanges ==
    (last.op = "chunk_text") =>
        LET words == Split(last.text)
            n == Len(words)
            chunks == last.chunks
            count == Len(chunks)
        IN  /\ \A k \in 1..count :
                  /\ chunks[k].metadata.chunk_id = k - 1
                  /\ ChunkStart(chunks[k])
                         = (k - 1) * (chunk_size - chunk_overlap)
                  /\ ChunkEnd(chunks[k])
                         = Min(ChunkStart(chunks[k]) + chunk_size, n)
                  /\ ChunkStart(chunks[k]) < ChunkEnd(chunks[k])
                  /\ ChunkWords(chunks[k])
                         = SubSeq(words, ChunkStart(chunks[k]) + 1,
                                  ChunkEnd(chunks[k]))
            /\ \A k \in 1..(count - 1) :
                  /\ ChunkStart(chunks[k]) < ChunkStart(chunks[k + 1])
                  /\ ChunkEnd(chunks[k]) <= ChunkEnd(chunks[k + 1])
                  /\ ChunkEnd(chunks[k]) - ChunkStart(chunks[k + 1])
                         <= chunk_overlap
                  /\ ChunkEnd(chunks[k]) - ChunkStart(chunks[k + 1]) >= 1
            /\ \A k \in 1..(count - 2) :
                  /\ ChunkEnd(chunks[k]) - ChunkStart(chunks[k + 1])
                         = chunk_overlap
                  /\ SubSeq(ChunkWords(chunks[k]),
                            chunk_size - chunk_overlap + 1, chunk_size)
                         = SubSeq(ChunkWords(chunks[k + 1]), 1,
                                  chunk_overlap)

\* Three chunks, the last sharing a single word with the second.
C13_Witness ==
    /\ last.op = "chunk_text"
    /\ Len(last.chunks) = 3
    /\ ChunkEnd(last.chunks[1]) - ChunkStart(last.chunks[2]) = chunk_overlap
    /\ ChunkEnd(last.chunks[2]) - ChunkStart(last.chunks[3]) = 1

\* The words of chunk k past the ones it shares with chunk k - 1.
FreshWords(chunks, k) ==
    IF k = 1 THEN ChunkWords(chunks[1])
    ELSE SubSeq(ChunkWords(chunks[k]),
                ChunkEnd(chunks[k - 1]) - ChunkStart(chunks[k]) + 1,
                Len(ChunkWords(chunks[k])))

RECURSIVE Reconstruct(_, _)
Reconstruct(chunks, k) ==
    IF k = 0 THEN <<>>
    ELSE Reconstruct(chunks, k - 1) \o FreshWords(chunks, k)

\* C14: the words of chunk 0, followed for each later chunk by its words
\* past the part it shares with its predecessor, are the words of the text
\* in order; every word of the text is in some chunk.
C14_ChunksReconstructText ==
    (last.op = "chunk_text") =>
        /\ Reconstruct(last.chunks, Len(last.chunks)) = Split(last.text)
        /\ Range(Split(last.text))
               \subseteq UNION {Range(ChunkWords(last.chunks[k])) :
                                   k \in DOMAIN last.chunks}

\* A text of several chunks, with newlines and leading whitespace.
C14_Witness ==
    /\ last.op = "chunk_text"
    /\ Len(last.chunks) >= 3
    /\ Head(last.text) = " "
    /\ NL \in Range(last.text)
    /\ Len(Split(last.text)) > 2 * chunk_size
    /\ Reconstruct(last.chunks, Len(last.chunks)) = Split(last.text)

\* C15: index_document of an empty or whitespace-only text raises to its
\* caller, returns no document id and leaves the store as it was.
C15_BlankTextRejected ==
    (last.op = "index_document" /\ ~IsNonBlank(last.text)) =>
        /\ last.raised # NoException
        /\ last.returned = NoneId
        /\ collection = last.before

\* A blank text given to a working pipeline with a working store: what is
\* raised is the store's refusal of an empty list of ids.
C15_Witness ==
    /\ last.op = "index_document"
    /\ last.text \in { <<>>, <<" ">> }
    /\ pipeline.embedding_manager /\ pipeline.collection
    /\ last.raised = "ValueError"
    /\ collection = last.before

\* The texts of a list that are neither empty nor whitespace only.
NonBlankTexts(texts) == SelectSeq(texts, IsNonBlank)

\* C16: embed_texts returns one vector per non-blank input text, the
\* vector of that text stripped, in input order; the result is the same for
\* every batch_size >= 1; when no input text is left it returns the empty
\* list and raises nothing.
C16_EmbedTextsOrderAndBatches ==
    (last.op = "embed_texts") =>
        LET kept == NonBlankTexts(last.texts)
        IN  /\ (kept = <<>>) =>
                   last.out = [exc |-> NoException, val |-> <<>>]
            /\ (last.encoder = "ok") =>
                   /\ last.out.exc = NoException
                   /\ Len(last.out.val) = Len(kept)
                   /\ \A j \in DOMAIN kept :
                         last.out.val[j] = Encode(Strip(kept[j]))
                   /\ \A b \in 1..(MaxBatch + MaxTexts) :
                         EmbedTexts(last.texts, b, "ok") = last.out

\* Two different texts around a blank one, encoded in batches of one.
C16_Witness ==
    /\ last.op = "embed_texts"
    /\ last.encoder = "ok"
    /\ last.batch_size = 1
    /\ Len(last.texts) = 3
    /\ ~IsNonBlank(last.texts[2])
    /\ Len(last.out.val) = 2
    /\ last.out.val[1] # last.out.val[2]

\* C17: the prompt of a query's generation request has the
\* answer-from-context template when at least one document was kept by
\* retrieval and the general-knowledge template when none was, whatever
\* the question, the document_id and max_tokens; _create_prompt chooses by
\* context.strip() alone.
C17_TemplateByContext ==
    (last.op = "query" /\ last.out.generation.requests = 1) =>
        /\ last.out.generation.template \in {"context", "general"}
        /\ (last.out.generation.template = "context")
               <=> (Len(last.out.retrieval.docs) >= 1)
        /\ (last.out.generation.template = "general")
               <=> (last.out.retrieval.docs = <<>>)
        /\ \A q \in Questions :
              CreatePrompt(q, ContextOf(last.out.retrieval.docs)).template
                  = last.out.generation.template

\* A filtered query with the larger max_tokens that keeps a document, and
\* so uses the context template.
C17_Witness ==
    /\ last.op = "query"
    /\ last.out.generation.requests = 1
    /\ Truthy(last.document_id)
    /\ last.max_tokens = 3000
    /\ Len(last.out.retrieval.docs) >= 1
    /\ last.out.generation.template = "context"

\* The ids index_legal_documents gives the chunks of one document.
LegalChunkIds(doc) ==
    {ChunkId(doc.id, j - 1) : j \in DOMAIN ChunkText(doc.content, NoWhere)}

\* C18: in index_legal_documents a failure for one document of the list
\* does not keep the others out of the store: after the call the chunks of
\* every document for which nothing failed are stored.
C18_LegalFailureIsolated ==
    (last.op = "index_legal_documents") =>
        \A d \in DOMAIN last.documents :
            (last.envs[d] = OkIndexEnv) =>
                LegalChunkIds(last.documents[d]) \subseteq StoredIds(collection)

\* C19: the clear operation returns the number of user_uploaded records
\* it removed, 0 when the store holds none, and a clear that failed is not
\* reported as a success.
C19_ClearReturnsCount ==
    (last.op = "clear_user_documents") =>
        /\ (last.error = NoException) =>
               /\ last.returned = <<CountWhere(last.before, UserWhere)>>
               /\ CountWhere(collection, UserWhere) = 0
        /\ (last.error # NoException) => ~last.success

\* C20: two index_document calls of one process, the second at any time
\* and with any filename, return different document ids and write
\* different record ids: the id a call returns is the id of no document
\* stored by an earlier call, and the record ids it builds are not stored
\* yet.  (No process restarts in SpecUpload and the store starts empty, so
\* every user record found by a call was written by a call of its own
\* process.)
C20_DocumentIdsDistinct ==
    (last.op = "index_document" /\ last.raised = NoException) =>
        /\ \A r \in Range(last.before) :
              r.metadata.document_id # last.returned
        /\ \A r \in Range(last.before) : r.id[1] # last.returned

\* C21: no step other than the startup indexing of the legal documents
\* changes the legal_knowledge records of the store: index_document, query,
\* clear_user_documents and the three requests of get_document_count, in
\* any order and interleaving, leave every one of them stored and
\* unaltered, whether their store requests fail or not.
C21_LegalRecordsKept ==
    [][(last'.op # "index_legal_documents") =>
           /\ LegalStored(collection') = LegalStored(collection)
           /\ Matching(collection', LegalWhere)
                  = Matching(collection, LegalWhere)]_vars

\* A clear that removed a user record of a serving process while a
\* document count was under way, the legal records stored.
C21_Witness ==
    /\ app = "serving"
    /\ last.op = "clear_user_documents"
    /\ counting.pc = "user"
    /\ CountWhere(last.before, UserWhere) > 0
    /\ CountWhere(collection, UserWhere) = 0
    /\ Cardinality(LegalStored(collection)) = 2

\* C22: initialize raises exactly when the vector store cannot be opened
\* or the embedding model cannot be loaded; with both in order it returns
\* normally, whether or not the reranker loads and whether or not the
\* generation service can be reached, and the application goes on to serve.
C22_StartupAbortsOnlyOnFatal ==
    (last.op = "initialize") =>
        /\ (last.raised # NoException) <=>
               (last.boot.chromadb # "ok" \/ last.boot.embedder # "ok")
        /\ (last.boot.chromadb = "ok" /\ last.boot.embedder = "ok") =>
               app = "initialized"

\* C23: a query sends at most one request to the generation service,
\* whatever the service does with it (an answer, another status than 200,
\* a timeout, any other failure): exactly one when the model is loaded,
\* none when it is not, and the outcome of the request is what the query
\* answers with.
C23_AtMostOneGenerationRequest ==
    (last.op = "query") =>
        LET g == last.out.generation
        IN  /\ g.requests <= 1
            /\ (g.requests = 1) <=> (pipeline.llm_handler = "loaded")
            /\ (g.requests = 1 /\ last.env.gen.kind = "timeout") =>
                   last.out.result.answer = TimeoutMessage
            /\ (g.requests = 1 /\ last.env.gen.kind = "non200") =>
                   last.out.result.answer = ApiErrorMessage
            /\ (g.requests = 1 /\ last.env.gen.kind = "error") =>
                   last.out.result.answer = GenerationErrorMessage

\* A query with retrieved documents whose one request got a status that is
\* not 200.
C23_Witness ==
    /\ last.op = "query"
    /\ last.env.gen.kind = "non200"
    /\ last.out.generation.requests = 1
    /\ last.out.result.retrieved_docs >= 1

\* What two queries are compared by: processing_time is left out.
QueryAnswer(out) ==
    [answer |-> out.result.answer, sources |-> out.result.sources,
     confidence |-> out.result.confidence,
     retrieved_docs |-> out.result.retrieved_docs]

RecordOf(db, id) == CHOOSE r \in Range(db) : r.id = id

\* C25: a retrieval that reaches the reranker with n candidates returns
\* the first min(top_k_rerank, n) entries of the reranker's permutation, in
\* that order, ranked 1, 2, ... without a gap, each with the text, the
\* metadata and the score (1 - distance to the question) of the one
\* candidate its entry of the permutation names; the sources of the query
\* result are those documents, as many as retrieved_docs says and never
\* more than top_k_rerank.
C25_KeepsFirstOfPermutation ==
    (last.op = "query") =>
        LET r == last.out.retrieval
            n == Len(r.candidates)
            m == Min(top_k_rerank, n)
            result == last.out.result
        IN  /\ (r.error = NoException /\ n > 0) =>
                /\ Len(r.docs) = m
                /\ Len(r.perm) = n
                /\ \A j \in 1..m :
                      LET hit == RecordOf(collection,
                                          r.candidates[r.perm[j] + 1])
                      IN  /\ r.docs[j].rank = j
                          /\ r.docs[j].text = hit.document
                          /\ r.docs[j].metadata = hit.metadata
                          /\ r.docs[j].score =
                                 1000 - CosineDistance(
                                            QuestionEmbedding(last.question),
                                            hit.embedding)
            /\ Len(result.sources) = result.retrieved_docs
            /\ result.retrieved_docs <= top_k_rerank
            /\ (last.out.error = NoException) =>
                /\ result.retrieved_docs = Len(r.docs)
                /\ \A j \in 1..Len(r.docs) :
                      /\ result.sources[j].rank = j
                      /\ result.sources[j].score = r.docs[j].score
                      /\ result.sources[j].title = r.docs[j].metadata.title

\* A query over the whole library with more candidates than it keeps,
\* which the reranker has put in another order than the store's.
C25_Witness ==
    /\ last.op = "query"
    /\ Len(last.out.retrieval.candidates) > top_k_rerank
    /\ Len(last.out.retrieval.docs) = top_k_rerank
    /\ last.out.result.retrieved_docs = top_k_rerank
    /\ last.out.retrieval.perm
           # Identity(Len(last.out.retrieval.candidates))

\* The records of the store that carry a document id
RecordsOfDocument(db, document_id) ==
    Matching(db, [document_id |-> document_id])

\* The chunks index_document has cut the text of the last upload into
LastChunks == ChunkText(last.text, NoWhere)

\* C26: the records of every uploaded document, m of them, carry the
\* chunk_id values 0..m-1, each under the id made of the document id and
\* its chunk_id, no id is stored twice and no two records of a document
\* cover the same (start_word, end_word) range; after an upload that cut
\* its text into m chunks, the document returned has exactly m records and
\* the one with the id of chunk i holds the text, the chunk_id and the word
\* range of chunk i.
C26_ChunkIdsAndRanges ==
    /\ Cardinality(StoredIds(collection)) = Len(collection)
    /\ \A j \in DOMAIN collection :
          LET document_id == collection[j].metadata.document_id
              records == RecordsOfDocument(collection, document_id)
          IN  /\ {records[k].metadata.chunk_id : k \in DOMAIN records}
                     = 0..(Len(records) - 1)
              /\ collection[j].id
                     = ChunkId(document_id, collection[j].metadata.chunk_id)
              /\ \A k, l \in DOMAIN records :
                    (k # l) =>
                        <<records[k].metadata.start_word,
                          records[k].metadata.end_word>>
                            # <<records[l].metadata.start_word,
                                records[l].metadata.end_word>>
    /\ (last.op = "index_document" /\ last.raised = NoException) =>
          /\ Len(RecordsOfDocument(collection, last.returned))
                 = Len(LastChunks)
          /\ \A i \in 0..(Len(LastChunks) - 1) :
                LET stored == RecordOf(collection,
                                       ChunkId(last.returned, i))
                IN  /\ ChunkId(last.returned, i) \in StoredIds(collection)
                    /\ stored.document = LastChunks[i + 1].text
                    /\ stored.metadata.chunk_id = i
                    /\ stored.metadata.start_word
                           = LastChunks[i + 1].metadata.start_word
                    /\ stored.metadata.end_word
                           = LastChunks[i + 1].metadata.end_word

\* The store holds the records of two documents, the one just indexed in
\* two chunks.
C26_Witness ==
    /\ last.op = "index_document"
    /\ last.raised = NoException
    /\ Len(LastChunks) = 2
    /\ Len(RecordsOfDocument(collection, last.returned)) = 2
    /\ \E j \in DOMAIN collection :
          collection[j].metadata.document_id # last.returned

\* C27: an upload whose embedding fails raises the failure to its caller
\* and leaves the store as it was, and so does every upload that raises;
\* an upload that returns has added one record per chunk of its text and
\* nothing else, the record of chunk i holding the text of chunk i and the
\* embedding of that text.
C27_IndexAllOrNothing ==
    (last.op = "index_document") =>
        /\ (last.env.encoder # "ok") =>
              /\ last.raised = "EmbeddingError"
              /\ last.returned = NoneId
        /\ (last.raised # NoException) => collection = last.before
        /\ (last.raised = NoException) =>
              /\ Len(collection) = Len(last.before) + Len(LastChunks)
              /\ SubSeq(collection, 1, Len(last.before)) = last.before
              /\ \A i \in 0..(Len(LastChunks) - 1) :
                    LET stored == RecordOf(collection,
                                           ChunkId(last.returned, i))
                    IN  /\ ChunkId(last.returned, i)
                               \in StoredIds(collection)
                        /\ stored.document = LastChunks[i + 1].text
                        /\ stored.embedding
                               = Encode(Strip(LastChunks[i + 1].text))

\* An upload of two chunks whose embedding failed, into a store that holds
\* another document.
C27_Witness ==
    /\ last.op = "index_document"
    /\ last.env.encoder = "fail"
    /\ last.raised = "EmbeddingError"
    /\ Len(LastChunks) = 2
    /\ last.before # <<>>
    /\ collection = last.before

\* How often a token stands in a text
Occurrences(text, token) ==
    Cardinality({j \in DOMAIN text : text[j] = token})

\* The text after its leading "Answer:" or "Response:", when it has one
AfterEchoPrefix(text) ==
    IF text # <<>> /\ Head(text) \in {"Answer:", "Response:"}
    THEN Tail(text) ELSE text

\* C28: _post_process_response takes away an "Answer:" or "Response:"
\* that the generated text begins with and no other: every "Answer:" and
\* every "Response:" after that prefix is still in the text it returns.
C28_OnlyLeadingEchoRemoved ==
    (last.op = "post_process_response") =>
        \A token \in {"Answer:", "Response:"} :
            Occurrences(last.out, token)
                = Occurrences(AfterEchoPrefix(Strip(last.response)), token)

\* C29: initialize leaves the handler with model_loaded true only when a
\* test generation request was made and the service generates; with a
\* service that cannot generate it raises and model_loaded stays false.
C29_LoadedOnlyAfterTest ==
    (last.op = "initialize") =>
        /\ (pipeline.llm_handler = "loaded") =>
              /\ last.test_requests >= 1
              /\ last.boot.llm = "ok"
        /\ (last.boot.chromadb = "ok" /\ last.boot.embedder = "ok"
                /\ last.boot.llm = "mute") =>
              /\ last.raised # NoException
              /\ pipeline.llm_handler # "loaded"

\* C30: the three numbers every get_document_count call returns add up,
\* total = legal_knowledge + user_uploaded, also when uploads and clears of
\* other request threads run between its three store requests.
C30_CountsAddUp ==
    (last.op = "get_document_count") =>
        last.out.total
            = last.out.legal_knowledge + last.out.user_uploaded

=============================================================================
